---- MODULE Spec2Model ----
(***************************************************************************)
(* State-machine model of the aerospace window switcher (src/src/main.rs). *)
(*                                                                         *)
(* Strings are sequences of one-character strings, so that splitting,      *)
(* trimming and subsequence matching are computed character by character.  *)
(* Rust's Option<T> is a set with at most one element: None is {},         *)
(* Some(x) is {x}.  Indices keep the code's 0-based values; a sequence is  *)
(* read at i + 1.  A value that is used several times is bound once with   *)
(* a quantifier over a one-element set, \E x \in {e} : ..., which is         *)
(* LET x == e IN ... evaluated a single time.                              *)
(***************************************************************************)
EXTENDS Integers, Sequences, FiniteSets, TLC

VARIABLES
    windows,          \* self.windows: Vec<WindowInfo>
    search_query,     \* self.search_query: String
    filtered_windows, \* self.filtered_windows: Vec<usize>
    selected_index,   \* self.selected_index: Option<usize>
    is_loading,       \* self.is_loading: bool
    elapsed,          \* self.load_start_time.elapsed(), in whole seconds
    window_to_focus,  \* self.window_to_focus: Option<String>
    windows_shared,   \* the Arc<Mutex<Option<Vec<WindowInfo>>>> handoff slot
    thread_pc,        \* position of the spawned background thread
    fetched,          \* the background thread's local `fetched`
    effects,          \* commands sent out, in order: spawned focus commands
                      \* and ViewportCommand::Close
    slot_writes,      \* number of `*guard = Some(fetched)` executed
    slot_takes,       \* number of `guard.take()` that returned Some
    frame_input,      \* the input of the frame that led to this state
                      \* (NoFrame when the last step was not a frame)
    nav_run,          \* observer: the current run of navigation frames
    command_output,   \* observer: what running the enumerate command produced
                      \* (None until the background thread has run it)
    frame_before      \* observer: selected_index and is_loading at the start
                      \* of the frame that led to this state

vars == <<windows, search_query, filtered_windows, selected_index, is_loading,
          elapsed, window_to_focus, windows_shared, thread_pc, fetched,
          effects, slot_writes, slot_takes, frame_input, nav_run,
          command_output, frame_before>>

-----------------------------------------------------------------------------
(* Bounds of the model *)

\* Longest query the user types.
MaxQueryLen == 1

(* Program constants *)

\* Duration::from_secs(2)
TimeoutSecs == 2

\* The code only compares the elapsed time with the timeout, so the clock is
\* followed in whole seconds until it is one past the timeout.
MaxElapsed == TimeoutSecs + 1

\* line.splitn(3, '|')
SplitParts == 3

-----------------------------------------------------------------------------
(* Option<T> *)

None == {}
Some(x) == {x}
Unwrap(o) == CHOOSE x \in o : TRUE
UnwrapOr(o, d) == IF o = None THEN d ELSE Unwrap(o)

\* slice.get(i) with a 0-based i
Get(s, i) == IF i >= 0 /\ i < Len(s) THEN Some(s[i + 1]) ELSE None

Max(a, b) == IF a >= b THEN a ELSE b

-----------------------------------------------------------------------------
(* Text *)

QueryChars == {"a", "b"}

RECURSIVE StringsUpTo(_)
StringsUpTo(n) ==
    IF n = 0 THEN {<<>>}
    ELSE LET shorter == StringsUpTo(n - 1)
         IN  shorter \cup {Append(s, c) : s \in shorter, c \in QueryChars}

Queries == StringsUpTo(MaxQueryLen)

IsWhitespace(c) == c = " "

RECURSIVE TrimStart(_)
TrimStart(s) ==
    IF s # <<>> /\ IsWhitespace(Head(s)) THEN TrimStart(Tail(s)) ELSE s

RECURSIVE TrimEnd(_)
TrimEnd(s) ==
    IF s # <<>> /\ IsWhitespace(s[Len(s)])
    THEN TrimEnd(SubSeq(s, 1, Len(s) - 1))
    ELSE s

\* str::trim
Trim(s) == TrimEnd(TrimStart(s))

\* position of the first `sep` in s, 0 when there is none
RECURSIVE FindFrom(_, _, _)
FindFrom(s, sep, i) ==
    IF i > Len(s) THEN 0
    ELSE IF s[i] = sep THEN i
    ELSE FindFrom(s, sep, i + 1)

\* str::splitn(n, sep): at most n parts, the last one holding the remainder
RECURSIVE SplitN(_, _, _)
SplitN(s, n, sep) ==
    IF n = 0 THEN <<>>
    ELSE LET p == FindFrom(s, sep, 1)
         IN  IF n = 1 \/ p = 0 THEN <<s>>
             ELSE <<SubSeq(s, 1, p - 1)>>
                      \o SplitN(SubSeq(s, p + 1, Len(s)), n - 1, sep)

-----------------------------------------------------------------------------
(* Window Source: fetch_windows *)

WindowInfo(id, name, info) == [id |-> id, name |-> name, info |-> info]

\* the closure of filter_map: one line to Some(WindowInfo) or None
ParseLine(line) ==
    LET parts == SplitN(line, SplitParts, "|")
    IN  IF Len(parts) >= SplitParts
        THEN Some(WindowInfo(Trim(parts[1]), Trim(parts[2]), Trim(parts[3])))
        ELSE None

RECURSIVE ParseLines(_)
ParseLines(lines) ==
    IF lines = <<>> THEN <<>>
    ELSE LET line == Head(lines)
             rest == ParseLines(Tail(lines))
         IN  IF Trim(line) = <<>> THEN rest
             ELSE LET rec == ParseLine(line)
                  IN  IF rec = None THEN rest ELSE <<Unwrap(rec)>> \o rest

\* A line of stdout is the sequence of its characters as the process wrote
\* them; BadByte stands for bytes that are not valid UTF-8.
BadByte == "0xFF"

\* BufRead::lines on one line: Some(text) for Ok, None for Err(InvalidData)
ReadLine(raw) ==
    IF \E i \in 1..Len(raw) : raw[i] = BadByte THEN None ELSE Some(raw)

\* .lines().map_while(Result::ok): the lines before the first one that fails
\* to decode
RECURSIVE MapWhileOk(_)
MapWhileOk(raws) ==
    IF raws = <<>> THEN <<>>
    ELSE IF ReadLine(Head(raws)) = None THEN <<>>
    ELSE <<Head(raws)>> \o MapWhileOk(Tail(raws))

\* What running `aerospace list-windows --all` can produce: the launch fails,
\* the process exits with a non-zero status, or it succeeds with stdout lines.
Line1 == <<"1", "|", "a", "b", "|", "a">>
Line2 == <<" ", "2", " ", "|", "b", "|", " ", "b", "|", "b">>
Line3 == <<"3", "|", "A", "|", "b", "a">>
BadLine == <<"x", "|", "a">>
BlankLine == <<" ", " ">>

CommandResults ==
    { [launched |-> FALSE, success |-> FALSE, stdout |-> <<>>],
      [launched |-> TRUE, success |-> FALSE, stdout |-> <<Line1>>],
      [launched |-> TRUE, success |-> TRUE, stdout |-> <<>>],
      [launched |-> TRUE, success |-> TRUE, stdout |-> <<BadLine, Line2>>],
      [launched |-> TRUE, success |-> TRUE,
       stdout |-> <<Line1, Line2, BadLine, BlankLine, Line3>>] }

\* bug variant: the exit status is not looked at
fetch_windows_ignoreStatus(result) ==
    IF ~result.launched THEN <<>>
    ELSE ParseLines(MapWhileOk(result.stdout))

fetch_windows(result) ==
    IF ~result.launched THEN <<>>
    ELSE IF ~result.success THEN <<>>
    ELSE ParseLines(MapWhileOk(result.stdout))

-----------------------------------------------------------------------------
(* Scoring oracle: SkimMatcherV2::fuzzy_match, an external crate.  Modelled *)
(* from its contract: case-insensitive subsequence matching, None when the  *)
(* pattern is no subsequence of the candidate, otherwise an integer score   *)
(* that is higher for contiguous and for prefix matches.                    *)

ToLower(c) == IF c = "A" THEN "a" ELSE IF c = "B" THEN "b" ELSE c

ScoreMatch == 16
BonusConsecutive == 4
BonusPrefix == 8

\* the ways pattern occurs in choice as a subsequence, ignoring case: the
\* position in choice of each character of pattern, strictly increasing
Embeddings(choice, pattern) ==
    {f \in [1..Len(pattern) -> 1..Len(choice)] :
        /\ \A k \in 1..Len(pattern) :
              ToLower(choice[f[k]]) = ToLower(pattern[k])
        /\ \A k \in 1..(Len(pattern) - 1) : f[k] < f[k + 1]}

\* the score of one way: every matched character counts, more when it follows
\* the previous matched character directly and when it starts the candidate
RECURSIVE EmbeddingScore(_, _)
EmbeddingScore(f, k) ==
    IF k = 0 THEN 0
    ELSE EmbeddingScore(f, k - 1) + ScoreMatch
           + (IF k > 1 /\ f[k] = f[k - 1] + 1 THEN BonusConsecutive ELSE 0)
           + (IF f[k] = 1 THEN BonusPrefix ELSE 0)

\* None when there is no way, otherwise Some(the best score of a way)
fuzzy_match(choice, pattern) ==
    UNION {{x \in scores : \A y \in scores : y <= x} :
              scores \in {{EmbeddingScore(f, Len(pattern)) :
                              f \in Embeddings(choice, pattern)}}}

-----------------------------------------------------------------------------
(* Filter Engine: filter_windows *)

\* bug variant: a window is kept only when both of its fields match
Combine_bothRequired(idx, name_score, info_score) ==
    IF name_score # None /\ info_score # None
    THEN Some(<<idx, Max(Unwrap(name_score), Unwrap(info_score))>>)
    ELSE None

\* match (name_score, info_score) { ... }: Some(<<idx, score>>) or None
Combine(idx, name_score, info_score) ==
    IF name_score # None /\ info_score # None
    THEN Some(<<idx, Max(Unwrap(name_score), Unwrap(info_score))>>)
    ELSE IF name_score # None THEN Some(<<idx, Unwrap(name_score)>>)
    ELSE IF info_score # None THEN Some(<<idx, Unwrap(info_score)>>)
    ELSE None

\* the closure of filter_map over the enumerated windows
ScoreWindow(idx, window, query) ==
    CHOOSE r \in {Combine(idx, name_score, info_score) :
                     name_score \in {fuzzy_match(window.name, query)},
                     info_score \in {fuzzy_match(window.info, query)}} : TRUE

RECURSIVE ScoredIndices(_, _, _)
ScoredIndices(ws, query, idx) ==
    IF idx >= Len(ws) THEN <<>>
    ELSE LET s == ScoreWindow(idx, ws[idx + 1], query)
         IN  (IF s = None THEN <<>> ELSE <<Unwrap(s)>>)
                 \o ScoredIndices(ws, query, idx + 1)

\* bug variant: a sort that reverses the elements with the same score
SortedPlace_reverseTies(s, i) ==
    1 + Cardinality({j \in 1..Len(s) :
                        \/ s[j][2] > s[i][2]
                        \/ (s[j][2] = s[i][2] /\ j > i)})

\* place of s[i] after a stable sort by |a, b| b.1.cmp(&a.1): behind the
\* elements with a greater score and behind the earlier ones with the same score
SortedPlace(s, i) ==
    1 + Cardinality({j \in 1..Len(s) :
                        \/ s[j][2] > s[i][2]
                        \/ (s[j][2] = s[i][2] /\ j < i)})

\* slice::sort_by, a stable sort, descending by score
SortByScore(s) ==
    [k \in 1..Len(s) |-> s[CHOOSE i \in 1..Len(s) : SortedPlace(s, i) = k]]

Indices(scored) == [k \in 1..Len(scored) |-> scored[k][1]]

\* bug variant: the empty query lists the positions counted from 1
Rank_oneBased(ws, query) ==
    IF query = <<>> THEN [k \in 1..Len(ws) |-> k]
    ELSE Indices(SortByScore(ScoredIndices(ws, query, 0)))

\* the new filtered_windows
Rank(ws, query) ==
    IF query = <<>> THEN [k \in 1..Len(ws) |-> k - 1]
    ELSE CHOOSE r \in {Indices(SortByScore(scored_indices)) :
                          scored_indices \in {ScoredIndices(ws, query, 0)}} :
            TRUE

\* bug variant: the selection survives the re-ranking
filter_windows_keepSelection(ws, query) ==
    [filtered |-> Rank(ws, query),
     selected |-> IF selected_index = None THEN Some(0) ELSE selected_index]

\* filter_windows: the new filtered_windows and selected_index
filter_windows(ws, query) ==
    [filtered |-> Rank(ws, query), selected |-> Some(0)]

-----------------------------------------------------------------------------
(* Interaction Controller helpers *)

\* bug variant: the timeout taken in minutes instead of seconds
is_loading_timed_out_minutes(el) == el > TimeoutSecs * 60

is_loading_timed_out(el) == el > TimeoutSecs

\* bug variant: the selection indexes self.windows directly instead of going
\* through filtered_windows
focus_selected_window_direct(sel, filtered, ws) ==
    IF sel = None THEN None
    ELSE IF Get(filtered, Unwrap(sel)) = None THEN None
    ELSE Some(ws[Unwrap(sel) + 1].id)

\* focus_selected_window: Some(id) when it stores the id in window_to_focus and
\* returns true, None when it returns false and stores nothing
focus_selected_window(sel, filtered, ws) ==
    IF sel = None THEN None
    ELSE LET idx == Get(filtered, Unwrap(sel))
         IN  IF idx = None THEN None ELSE Some(ws[Unwrap(idx) + 1].id)

\* bug variant: no wrap at the end of the list
NavigateNext_nowrap(sel, n) == Some(UnwrapOr(sel, 0) + 1)

\* ArrowDown / Ctrl+N / Ctrl+J
NavigateNext(sel, n) == Some((UnwrapOr(sel, 0) + 1) % n)

\* bug variant: previous stops at the first row instead of wrapping
NavigatePrevious_clamp(sel, n) ==
    Some(IF sel # None
         THEN (IF Unwrap(sel) = 0 THEN 0 ELSE Unwrap(sel) - 1)
         ELSE 0)

\* ArrowUp / Ctrl+P / Ctrl+K
NavigatePrevious(sel, n) ==
    Some(IF sel # None
         THEN (IF Unwrap(sel) = 0 THEN n - 1 ELSE Unwrap(sel) - 1)
         ELSE 0)

\* Iterator::position: 0-based position of the first element equal to x
RECURSIVE PositionFrom(_, _, _)
PositionFrom(s, x, k) ==
    IF k > Len(s) THEN None
    ELSE IF s[k] = x THEN Some(k - 1)
    ELSE PositionFrom(s, x, k + 1)

Position(s, x) == PositionFrom(s, x, 1)

FocusCommand(id) == [kind |-> "focus", id |-> id]
CloseCommand == [kind |-> "close", id |-> <<>>]

-----------------------------------------------------------------------------
(* Initial state: AerospaceWindowSwitcher::default *)

NoFrame == [kind |-> "none"]
NoRun == [dir |-> "none", start |-> 0, count |-> 0]

Init ==
    /\ windows = <<>>
    /\ search_query = <<>>
    /\ filtered_windows = <<>>
    /\ selected_index = None
    /\ is_loading = TRUE
    /\ elapsed = 0
    /\ window_to_focus = None
    /\ windows_shared = None
    /\ thread_pc = "fetch"
    /\ fetched = <<>>
    /\ effects = <<>>
    /\ slot_writes = 0
    /\ slot_takes = 0
    /\ frame_input = NoFrame
    /\ nav_run = NoRun
    /\ command_output = None
    /\ frame_before = NoFrame

\* ViewportCommand::Close has been sent: the toolkit closes the overlay and
\* update is not called again.
Closed == \E k \in 1..Len(effects) : effects[k].kind = "close"

-----------------------------------------------------------------------------
(* The background thread spawned by default() *)

\* let fetched = Self::fetch_windows();
ThreadFetch(result) ==
    /\ thread_pc = "fetch"
    /\ fetched' = fetch_windows(result)
    /\ thread_pc' = "store"
    /\ command_output' = Some(result)
    /\ frame_input' = NoFrame
    /\ frame_before' = NoFrame
    /\ UNCHANGED <<windows, search_query, filtered_windows, selected_index,
                   is_loading, elapsed, window_to_focus, windows_shared,
                   effects, slot_writes, slot_takes, nav_run>>

\* bug variant: the producer does not exit after its push
ThreadStore_repeat ==
    /\ thread_pc = "store"
    /\ windows_shared' = Some(fetched)
    /\ slot_writes' = slot_writes + 1
    /\ frame_input' = NoFrame
    /\ frame_before' = NoFrame
    /\ UNCHANGED <<windows, search_query, filtered_windows, selected_index,
                   is_loading, elapsed, window_to_focus, effects, slot_takes,
                   nav_run, fetched, thread_pc, command_output>>

\* bug variant: the thread also installs the list in the controller's state
ThreadStore_direct ==
    /\ thread_pc = "store"
    /\ windows_shared' = Some(fetched)
    /\ windows' = fetched
    /\ fetched' = <<>>
    /\ thread_pc' = "done"
    /\ slot_writes' = slot_writes + 1
    /\ frame_input' = NoFrame
    /\ frame_before' = NoFrame
    /\ UNCHANGED <<search_query, filtered_windows, selected_index,
                   is_loading, elapsed, window_to_focus, effects, slot_takes,
                   nav_run, command_output>>

\* let mut guard = lock(); *guard = Some(fetched);  then the thread exits
ThreadStore ==
    /\ thread_pc = "store"
    /\ windows_shared' = Some(fetched)
    /\ fetched' = <<>>
    /\ thread_pc' = "done"
    /\ slot_writes' = slot_writes + 1
    /\ frame_input' = NoFrame
    /\ frame_before' = NoFrame
    /\ UNCHANGED <<windows, search_query, filtered_windows, selected_index,
                   is_loading, elapsed, window_to_focus, effects, slot_takes,
                   nav_run, command_output>>

\* the wall clock advances by one second
Tick ==
    /\ elapsed < MaxElapsed
    /\ elapsed' = elapsed + 1
    /\ frame_input' = NoFrame
    /\ frame_before' = NoFrame
    /\ UNCHANGED <<windows, search_query, filtered_windows, selected_index,
                   is_loading, window_to_focus, windows_shared, thread_pc,
                   fetched, effects, slot_writes, slot_takes, nav_run,
                   command_output>>

-----------------------------------------------------------------------------
(* One frame: eframe::App::update *)

RECURSIVE MaxLen(_)
MaxLen(S) ==
    IF S = {} THEN 0
    ELSE LET x == CHOOSE y \in S : TRUE
         IN  Max(Len(fetch_windows(x)), MaxLen(S \ {x}))

\* the longest list the window manager reports
MaxRows == MaxLen(CommandResults)

\* What one frame can observe: the keys pressed during it, a change of the
\* text field (the new text) and a click on a displayed row (its position).
FrameInputs ==
    [kind : {"frame"}, escape : BOOLEAN, enter : BOOLEAN, down : BOOLEAN,
     up : BOOLEAN, edit : {None} \cup {Some(q) : q \in Queries},
     click : {None} \cup {Some(r) : r \in 0..(MaxRows - 1)}]

\* filtered_windows and selected_index as they are
Ranked == [filtered |-> filtered_windows, selected |-> selected_index]

\* bug variant: the slot is polled on every frame, not only while loading
LoadingPoll_everyFrame ==
    LET took == windows_shared # None
        ws == IF took THEN Unwrap(windows_shared) ELSE windows
        should_update == took \/ (is_loading /\ is_loading_timed_out(elapsed))
    IN  [windows |-> ws, slot |-> None, took |-> took,
         is_loading |-> is_loading /\ ~should_update,
         ranked |-> IF should_update THEN filter_windows(ws, search_query)
                    ELSE Ranked]

\* bug variant: the list is adopted without a filter pass
LoadingPoll_noFilter ==
    IF ~is_loading
    THEN [windows |-> windows, slot |-> windows_shared, took |-> FALSE,
          is_loading |-> FALSE, ranked |-> Ranked]
    ELSE LET took == windows_shared # None
             ws == IF took THEN Unwrap(windows_shared) ELSE windows
             should_update == took \/ is_loading_timed_out(elapsed)
         IN  [windows |-> ws, slot |-> None, took |-> took,
              is_loading |-> ~should_update,
              ranked |-> [filtered |-> filtered_windows,
                          selected |-> Some(0)]]

\* bug variant: the timeout is looked at before the slot
LoadingPoll_timeoutFirst ==
    IF ~is_loading
    THEN [windows |-> windows, slot |-> windows_shared, took |-> FALSE,
          is_loading |-> FALSE, ranked |-> Ranked]
    ELSE LET timed_out == is_loading_timed_out(elapsed)
             took == ~timed_out /\ windows_shared # None
             ws == IF took THEN Unwrap(windows_shared) ELSE windows
             should_update == took \/ timed_out
         IN  [windows |-> ws,
              slot |-> IF took THEN None ELSE windows_shared,
              took |-> took,
              is_loading |-> ~should_update,
              ranked |-> IF should_update
                         THEN filter_windows(ws, search_query)
                         ELSE Ranked]

\* if self.is_loading { check-and-take, timeout, filter_windows }: the state
\* after the block, `ranked` being filtered_windows and selected_index
LoadingPoll ==
    IF ~is_loading
    THEN [windows |-> windows, slot |-> windows_shared, took |-> FALSE,
          is_loading |-> FALSE, ranked |-> Ranked]
    ELSE LET took == windows_shared # None
             ws == IF took THEN Unwrap(windows_shared) ELSE windows
             should_update == took \/ is_loading_timed_out(elapsed)
         IN  [windows |-> ws, slot |-> None, took |-> took,
              is_loading |-> ~should_update,
              ranked |-> IF should_update
                         THEN filter_windows(ws, search_query)
                         ELSE Ranked]

\* key_pressed(Enter) && selected_index.is_some() && focus_selected_window():
\* Some(id) when the condition holds, id being what window_to_focus received
EnterCommit(inp, sel, filtered, ws) ==
    IF inp.enter /\ sel # None
    THEN focus_selected_window(sel, filtered, ws)
    ELSE None

\* bug variant: the Enter commit is checked before Escape
KeyBranch_enterFirst(inp, commit) ==
    IF commit # None THEN "commit"
    ELSE IF inp.escape THEN "escape"
    ELSE "panel"

\* the order of the key checks: Escape returns first, then the Enter commit
\* returns, otherwise the frame goes on to navigation and the panel
KeyBranch(inp, commit) ==
    IF inp.escape THEN "escape"
    ELSE IF commit # None THEN "commit"
    ELSE "panel"

\* the commands of the Enter branch: window_to_focus.take(), spawn, Close
EnterCommands(id) == <<FocusCommand(id), CloseCommand>>

\* bug variant: the is_empty guard is missing and next does not wrap
Navigate_unguarded(inp, sel, filtered) ==
    IF inp.down THEN Some(UnwrapOr(sel, 0) + 1)
    ELSE IF inp.up /\ filtered # <<>>
    THEN NavigatePrevious(sel, Len(filtered))
    ELSE sel

\* if !filtered_windows.is_empty() { next, else previous }
Navigate(inp, sel, filtered) ==
    IF filtered = <<>> THEN sel
    ELSE IF inp.down THEN NavigateNext(sel, Len(filtered))
    ELSE IF inp.up THEN NavigatePrevious(sel, Len(filtered))
    ELSE sel

\* bug variant: position looks for the row number instead of the window index
ClickCommit_rowAsIndex(row, filtered, ws, wtf) ==
    LET sel == Position(filtered, row)
        id == focus_selected_window(sel, filtered, ws)
    IN  [selected |-> sel,
         window_to_focus |-> IF id # None THEN id ELSE wtf,
         sent |-> IF id # None THEN <<CloseCommand>> ELSE <<>>]

\* the row click: the selection written at the end of the list, the id stored
\* in window_to_focus and the commands sent
ClickCommit(row, filtered, ws, wtf) ==
    LET win_idx == filtered[row + 1]
        sel == Position(filtered, win_idx)
        id == focus_selected_window(sel, filtered, ws)
    IN  [selected |-> sel,
         window_to_focus |-> IF id # None THEN id ELSE wtf,
         sent |-> IF id # None THEN <<CloseCommand>> ELSE <<>>]

\* Observer of runs of consecutive navigation frames in one direction over an
\* unchanged list: the direction, the selection the run started from and the
\* number of frames in the run so far.
NavRun(inp, branch) ==
    LET dir == IF inp.down THEN "next" ELSE IF inp.up THEN "previous"
               ELSE "none"
        pure == /\ branch = "panel" /\ ~is_loading /\ dir # "none"
                /\ filtered_windows # <<>> /\ selected_index # None
                /\ inp.edit = None /\ inp.click = None
    IN  IF ~pure THEN NoRun
        ELSE IF nav_run.dir = dir /\ nav_run.count < Len(filtered_windows)
        THEN [nav_run EXCEPT !.count = @ + 1]
        ELSE [dir |-> dir, start |-> Unwrap(selected_index), count |-> 1]

\* the panel: the text field, then the list of rows (not while loading)
Panel(inp, p) ==
    \E r \in {IF inp.edit # None
              THEN filter_windows(p.windows, Unwrap(inp.edit))
              ELSE [filtered |-> p.ranked.filtered,
                    selected |-> Navigate(inp, p.ranked.selected,
                                          p.ranked.filtered)]} :
        /\ search_query' = IF inp.edit # None THEN Unwrap(inp.edit)
                           ELSE search_query
        /\ filtered_windows' = r.filtered
        /\ IF p.is_loading
           THEN \* "Loading windows...": no rows to click
                /\ inp.click = None
                /\ selected_index' = r.selected
                /\ UNCHANGED <<window_to_focus, effects>>
           ELSE IF inp.click = None
           THEN /\ selected_index' = Some(UnwrapOr(r.selected, 0))
                /\ UNCHANGED <<window_to_focus, effects>>
           ELSE /\ Unwrap(inp.click) < Len(r.filtered)
                /\ \E c \in {ClickCommit(Unwrap(inp.click), r.filtered,
                                         p.windows, window_to_focus)} :
                      /\ selected_index' = c.selected
                      /\ window_to_focus' = c.window_to_focus
                      /\ effects' = effects \o c.sent

Update(inp) ==
    /\ ~Closed
    /\ inp.edit # None => Unwrap(inp.edit) # search_query
    /\ \E p \in {LoadingPoll} :
       \E commit \in {EnterCommit(inp, p.ranked.selected, p.ranked.filtered,
                                  p.windows)} :
       \E branch \in {KeyBranch(inp, commit)} :
          /\ windows' = p.windows
          /\ windows_shared' = p.slot
          /\ is_loading' = p.is_loading
          /\ slot_takes' = slot_takes + (IF p.took THEN 1 ELSE 0)
          /\ frame_input' = inp
          /\ nav_run' = NavRun(inp, branch)
          /\ frame_before' = [selected |-> selected_index,
                              is_loading |-> is_loading]
          /\ UNCHANGED <<elapsed, thread_pc, fetched, slot_writes,
                         command_output>>
          /\ CASE branch = "escape" ->
                  \* return before the text field and the rows are reached
                  /\ inp.edit = None /\ inp.click = None
                  /\ effects' = Append(effects, CloseCommand)
                  /\ filtered_windows' = p.ranked.filtered
                  /\ selected_index' = p.ranked.selected
                  /\ UNCHANGED <<search_query, window_to_focus>>
               [] branch = "commit" ->
                  /\ inp.edit = None /\ inp.click = None
                  /\ effects' = effects \o EnterCommands(Unwrap(commit))
                  /\ window_to_focus' = None
                  /\ filtered_windows' = p.ranked.filtered
                  /\ selected_index' = p.ranked.selected
                  /\ UNCHANGED search_query
               [] OTHER -> Panel(inp, p)

Frame == \E inp \in FrameInputs : Update(inp)

Next ==
    \/ \E result \in CommandResults : ThreadFetch(result)
    \/ ThreadStore
    \/ Tick
    \/ Frame

Spec == Init /\ [][Next]_vars

\* a frame during which no key is pressed, no text typed and no row clicked
IdleInput ==
    [kind |-> "frame", escape |-> FALSE, enter |-> FALSE, down |-> FALSE,
     up |-> FALSE, edit |-> None, click |-> None]

IdleFrame == Update(IdleInput)

\* While the overlay is open frames keep being rendered (a key press lasts one
\* frame, so frames without input keep occurring) and the wall clock advances;
\* nothing is assumed of the background thread.
LiveSpec == Spec /\ WF_vars(IdleFrame) /\ WF_vars(Tick)

-----------------------------------------------------------------------------
(* The Filter Engine on its own: filter_windows applied to every window     *)
(* list and query within the bounds                                        *)

\* Longest window list handed to filter_windows on its own.
MaxWindows == 3

\* records as fetch_windows produces them: trimmed fields, possibly empty
WindowPool ==
    { WindowInfo(<<"1">>, <<"a", "b">>, <<"a">>),
      WindowInfo(<<"2">>, <<"b">>, <<"b", "|", "b">>),
      WindowInfo(<<"3">>, <<"A">>, <<"b", "a">>),
      WindowInfo(<<"4">>, <<>>, <<>>),
      WindowInfo(<<"5">>, <<"b", "a">>, <<"a", "b">>) }

WindowLists == UNION {[1..n -> WindowPool] : n \in 0..MaxWindows}

\* the state in which update calls filter_windows for the first time: the list
\* has been adopted, is_loading is already false, nothing is ranked yet
FilterInit ==
    /\ windows \in WindowLists
    /\ search_query \in Queries
    /\ filtered_windows = <<>>
    /\ selected_index = None
    /\ is_loading = FALSE
    /\ elapsed = 0
    /\ window_to_focus = None
    /\ windows_shared = None
    /\ thread_pc = "done"
    /\ fetched = <<>>
    /\ effects = <<>>
    /\ slot_writes = 1
    /\ slot_takes = 1
    /\ frame_input = NoFrame
    /\ nav_run = NoRun
    /\ command_output = None
    /\ frame_before = NoFrame

\* self.filter_windows()
FilterPass ==
    /\ \E r \in {filter_windows(windows, search_query)} :
          /\ filtered_windows' = r.filtered
          /\ selected_index' = r.selected
    /\ UNCHANGED <<windows, search_query, is_loading, elapsed, window_to_focus,
                   windows_shared, thread_pc, fetched, effects, slot_writes,
                   slot_takes, frame_input, nav_run, command_output,
                   frame_before>>

FilterNext == FilterPass

FilterSpec == FilterInit /\ [][FilterNext]_vars

-----------------------------------------------------------------------------
(* The Window Source on its own: the background thread's fetch applied to   *)
(* every output within the bounds                                          *)

\* Longest line of the outputs enumerated character by character.
MaxLineLen == 4

LineChars == {" ", "|", "a", BadByte}

RECURSIVE LinesUpTo(_)
LinesUpTo(n) ==
    IF n = 0 THEN {<<>>}
    ELSE LET shorter == LinesUpTo(n - 1)
         IN  shorter \cup {Append(s, c) : s \in shorter, c \in LineChars}

RawLines == LinesUpTo(MaxLineLen)

\* stdout of a successful run: nothing, any one line, or any one line between
\* two window lines
FetchOutputs ==
    {<<>>} \cup {<<raw>> : raw \in RawLines}
           \cup {<<Line2, raw, Line3>> : raw \in RawLines}

FetchNext ==
    \E out \in FetchOutputs :
        ThreadFetch([launched |-> TRUE, success |-> TRUE, stdout |-> out])

FetchSpec == Init /\ [][FetchNext]_vars

\* the number of matcher.fuzzy_match calls one filter_windows makes: the empty
\* query returns before the matcher is built, otherwise name and info of every
\* window are scored
OracleCalls(ws, query) == IF query = <<>> THEN 0 ELSE 2 * Len(ws)

-----------------------------------------------------------------------------
(* Properties *)

IsFrame(inp) == inp.kind = "frame"

\* the id of the window shown at row r of the list
RowId(ws, filtered, r) == ws[filtered[r + 1] + 1].id

\* C1: a click on the displayed row r issues a focus request carrying the id of
\* windows[filtered_windows[r]] and then closes the overlay, as Enter on that
\* row would.
C1_ClickCommits ==
    [][(IsFrame(frame_input') /\ frame_input'.click # None)
        => effects' = effects \o
              <<FocusCommand(RowId(windows', filtered_windows',
                                   Unwrap(frame_input'.click))),
                CloseCommand>>]_vars

\* C2: Enter pressed (without Escape) with selected_index = Some(s) and
\* s < len(filtered_windows) issues exactly one focus request, carrying the id
\* of windows[filtered_windows[s]], followed by the close command.
C2_EnterCommit ==
    [][(/\ IsFrame(frame_input')
        /\ frame_input'.enter /\ ~frame_input'.escape
        /\ selected_index # None
        /\ Unwrap(selected_index) < Len(filtered_windows))
        => effects' = effects \o
              <<FocusCommand(RowId(windows, filtered_windows,
                                   Unwrap(selected_index))),
                CloseCommand>>]_vars

\* an Enter commit of a row whose window is not at the row's position in windows
C2_Witness ==
    /\ IsFrame(frame_input) /\ frame_input.enter
    /\ selected_index # None
    /\ Unwrap(selected_index) < Len(filtered_windows)
    /\ filtered_windows[Unwrap(selected_index) + 1] # Unwrap(selected_index)
    /\ effects = <<FocusCommand(RowId(windows, filtered_windows,
                                      Unwrap(selected_index))),
                   CloseCommand>>
    /\ effects[1].id # windows[Unwrap(selected_index) + 1].id

\* C3: whenever filtered_windows is non-empty and selected_index is Some(s),
\* 0 <= s < len(filtered_windows).
C3_SelectedInRange ==
    (filtered_windows # <<>> /\ selected_index # None)
        => /\ Unwrap(selected_index) >= 0
           /\ Unwrap(selected_index) < Len(filtered_windows)

\* "previous" pressed on the first of three rows has wrapped to the last row
C3_Witness ==
    /\ IsFrame(frame_input) /\ frame_input.up
    /\ nav_run = [dir |-> "previous", start |-> 0, count |-> 1]
    /\ Len(filtered_windows) = 3
    /\ selected_index = Some(2)

\* C4: window_to_focus is None at the end of every frame: every commit takes
\* the id it stored within the same frame.
C4_PendingConsumed == window_to_focus = None

\* C5: with frames rendered fairly and the clock advancing, the controller
\* leaves Loading (unless the overlay is closed first) whatever the background
\* thread does; a transition made with the slot empty happens after more than
\* 2 seconds and leaves windows and filtered_windows empty; a frame is always
\* possible while the overlay is open.
C5_TimeoutLiveness ==
    /\ <>(Closed \/ ~is_loading)
    /\ [][(is_loading /\ ~is_loading' /\ windows_shared = None)
           => /\ elapsed > TimeoutSecs
              /\ windows' = <<>>
              /\ filtered_windows' = <<>>]_vars
    /\ [](~Closed => ENABLED Frame)

\* Ready reached by the timeout while the background thread has not fetched
C5_Witness ==
    /\ ~is_loading /\ IsFrame(frame_input)
    /\ thread_pc = "fetch" /\ windows_shared = None
    /\ windows = <<>> /\ filtered_windows = <<>>
    /\ elapsed > TimeoutSecs

\* C6: once is_loading is false it stays false and windows never changes; a
\* list delivered after the timeout stays in the slot.
C6_ReadyTerminal ==
    [][~is_loading
        => /\ ~is_loading'
           /\ windows' = windows
           /\ (windows_shared # None => windows_shared' = windows_shared)]_vars

\* a frame has run after a late delivery and left the list in the slot
C6_Witness ==
    /\ ~is_loading /\ IsFrame(frame_input)
    /\ windows = <<>>
    /\ windows_shared # None /\ Unwrap(windows_shared) # <<>>
    /\ slot_takes = 0

\* C7: the controller takes a delivered value at most once and the producer
\* writes the slot at most once.
C7_HandoffOnce ==
    /\ slot_takes <= 1
    /\ slot_writes <= 1
    /\ slot_takes <= slot_writes

\* the one write has been taken by the controller
C7_Witness ==
    /\ slot_takes = 1 /\ slot_writes = 1
    /\ windows # <<>> /\ windows_shared = None
    /\ thread_pc = "done" /\ IsFrame(frame_input)

\* C8: a frame in which Escape is pressed sends the close command and nothing
\* else, whatever the state and the other keys.
C8_CancelNoFocus ==
    [][(IsFrame(frame_input') /\ frame_input'.escape)
        => /\ effects' = Append(effects, CloseCommand)
           /\ window_to_focus' = window_to_focus]_vars

\* Escape and Enter in the same frame, with a row selected
C8_Witness ==
    /\ IsFrame(frame_input) /\ frame_input.escape /\ frame_input.enter
    /\ ~is_loading
    /\ selected_index # None
    /\ Unwrap(selected_index) < Len(filtered_windows)
    /\ effects = <<CloseCommand>>

\* C9: in a frame without Escape or a text change that ends with
\* filtered_windows empty, Enter, next and previous send nothing and store no
\* id; when the frame is no Loading -> Ready transition they also leave
\* selected_index unchanged, and it resolves to no row.
C9_EmptyNoOp ==
    [][(/\ IsFrame(frame_input')
        /\ ~frame_input'.escape /\ frame_input'.edit = None
        /\ (frame_input'.enter \/ frame_input'.down \/ frame_input'.up)
        /\ filtered_windows' = <<>>)
        => /\ effects' = effects
           /\ window_to_focus' = None
           /\ (is_loading' = is_loading => selected_index' = selected_index)
           /\ (selected_index' # None
                 => Get(filtered_windows', Unwrap(selected_index')) = None)
      ]_vars

\* Enter and next pressed in Ready while the query matches no window
C9_Witness ==
    /\ IsFrame(frame_input) /\ frame_input.enter /\ frame_input.down
    /\ ~frame_input.escape /\ frame_input.edit = None
    /\ ~is_loading /\ windows # <<>> /\ filtered_windows = <<>>
    /\ selected_index = Some(0)
    /\ effects = <<>> /\ window_to_focus = None

\* C10: after K consecutive next frames, or K consecutive previous frames, on
\* a list of K rows the selection is back where the run started; next from
\* row K-1 gives row 0 and previous from row 0 gives row K-1.
C10_NavigationWraps ==
    LET K == Len(filtered_windows)
    IN  /\ (nav_run.dir # "none" /\ nav_run.count = K)
             => selected_index = Some(nav_run.start)
        /\ (nav_run.dir = "next" /\ nav_run.count = 1
              /\ nav_run.start = K - 1)
             => selected_index = Some(0)
        /\ (nav_run.dir = "previous" /\ nav_run.count = 1
              /\ nav_run.start = 0)
             => selected_index = Some(K - 1)

\* three next frames on three rows, started from the middle row
C10_Witness ==
    /\ nav_run = [dir |-> "next", start |-> 1, count |-> 3]
    /\ Len(filtered_windows) = 3
    /\ selected_index = Some(1)

\* the frame that leads to the next state re-ranks: its text field changed, or
\* it makes the Loading -> Ready transition
Reranks ==
    /\ IsFrame(frame_input')
    /\ (frame_input'.edit # None \/ (is_loading /\ ~is_loading'))

\* C11: a frame that re-ranks (a changed query, or the Loading -> Ready
\* transition) sets selected_index to Some(0), whatever it was before; only a
\* step that follows the re-ranking within the same frame moves it, starting
\* from row 0: a click on a row (selecting that row) or, after the transition,
\* one navigation key (next to row 1 mod K, previous to row K-1).
C11_SelectionReset ==
    [][Reranks
        => LET inp == frame_input'
               K == Len(filtered_windows')
           IN  IF inp.click # None
               THEN selected_index' = Some(Unwrap(inp.click))
               ELSE IF /\ inp.edit = None /\ ~inp.escape /\ ~inp.enter
                       /\ (inp.down \/ inp.up) /\ K > 0
               THEN selected_index' = Some(IF inp.down THEN 1 % K ELSE K - 1)
               ELSE selected_index' = Some(0)]_vars

\* the query changed from "" to "b" while the third window was selected: that
\* window is still listed (second), and the selection is the first row
C11_Witness ==
    /\ IsFrame(frame_input) /\ frame_input.edit = Some(<<"b">>)
    /\ frame_input.click = None
    /\ frame_before.selected = Some(2) /\ ~frame_before.is_loading
    /\ filtered_windows = <<1, 2, 0>>
    /\ selected_index = Some(0)

\* a filter pass has run on the current window list and query
Filtered == selected_index # None

\* the scoring oracle matches the name or the info of window w
Matches(w, query) ==
    fuzzy_match(w.name, query) # None \/ fuzzy_match(w.info, query) # None

\* C12: after a filter pass with a non-empty query, filtered_windows holds,
\* each exactly once, precisely the indices of the windows whose name or info
\* the scoring oracle matches.
C12_ExactlyMatching ==
    (Filtered /\ search_query # <<>>)
        => /\ {filtered_windows[k] : k \in 1..Len(filtered_windows)}
                = {i \in 0..(Len(windows) - 1) :
                      Matches(windows[i + 1], search_query)}
           /\ \A k, l \in 1..Len(filtered_windows) :
                 filtered_windows[k] = filtered_windows[l] => k = l

\* query "b": the first window is matched by its info only, the second by
\* neither field, the third by its name only; the first and third are listed
C12_Witness ==
    /\ Filtered /\ search_query = <<"b">>
    /\ windows = <<WindowInfo(<<"3">>, <<"A">>, <<"b", "a">>),
                   WindowInfo(<<"4">>, <<>>, <<>>),
                   WindowInfo(<<"1">>, <<"a", "b">>, <<"a">>)>>
    /\ fuzzy_match(windows[1].name, search_query) = None
    /\ fuzzy_match(windows[1].info, search_query) # None
    /\ ~Matches(windows[2], search_query)
    /\ fuzzy_match(windows[3].name, search_query) # None
    /\ fuzzy_match(windows[3].info, search_query) = None
    /\ filtered_windows = <<0, 2>>

\* the combined score of a matching window: the greatest of the scores of its
\* matching fields
CombinedScore(w, query) ==
    CHOOSE x \in fuzzy_match(w.name, query) \cup fuzzy_match(w.info, query) :
        \A y \in fuzzy_match(w.name, query) \cup fuzzy_match(w.info, query) :
            y <= x

\* C13: after a filter pass with a non-empty query, each listed window has a
\* combined score at least that of the next one, and of two neighbours with the
\* same score the one fetched first comes first; ranking the same list and
\* query again gives the same sequence.
C13_ScoreOrder ==
    (Filtered /\ search_query # <<>>)
        => /\ \A k \in 1..(Len(filtered_windows) - 1) :
                 \E a \in {CombinedScore(windows[filtered_windows[k] + 1],
                                         search_query)},
                    b \in {CombinedScore(windows[filtered_windows[k + 1] + 1],
                                         search_query)} :
                    \/ a > b
                    \/ (a = b /\ filtered_windows[k] < filtered_windows[k + 1])
           /\ filtered_windows = filter_windows(windows, search_query).filtered

\* query "b": the first window scores lower than the other two and is moved
\* behind them; those two score the same and keep their fetch order
C13_Witness ==
    /\ Filtered /\ search_query = <<"b">>
    /\ windows = <<WindowInfo(<<"1">>, <<"a", "b">>, <<"a">>),
                   WindowInfo(<<"2">>, <<"b">>, <<"b", "|", "b">>),
                   WindowInfo(<<"3">>, <<"A">>, <<"b", "a">>)>>
    /\ CombinedScore(windows[1], search_query)
          < CombinedScore(windows[2], search_query)
    /\ CombinedScore(windows[2], search_query)
          = CombinedScore(windows[3], search_query)
    /\ filtered_windows = <<1, 2, 0>>

\* C14: after a filter pass with the empty query, filtered_windows is
\* 0, 1, ..., N-1 for a list of N windows (empty when N = 0) and the scoring
\* oracle has not been called.
C14_EmptyQueryIdentity ==
    (Filtered /\ search_query = <<>>)
        => /\ Len(filtered_windows) = Len(windows)
           /\ \A k \in 1..Len(windows) : filtered_windows[k] = k - 1
           /\ OracleCalls(windows, search_query) = 0

\* the empty query on three windows, one of which no pattern but the empty one
\* matches
C14_Witness ==
    /\ Filtered /\ search_query = <<>>
    /\ Len(windows) = 3 /\ windows[2].name = <<>> /\ windows[2].info = <<>>
    /\ filtered_windows = <<0, 1, 2>>

\* the enumerate command has been run and could not be launched or exited with
\* a non-zero status
Failed(out) ==
    out # None /\ (~Unwrap(out).launched \/ ~Unwrap(out).success)

\* C15: when the enumerate command cannot be launched or exits with a non-zero
\* status, the background thread fetches the empty list and stores it in the
\* slot like any other; the first frame that polls the slot while loading
\* takes it and ends Ready with windows and filtered_windows empty, before any
\* timeout; a frame stays possible for as long as the overlay is open.
C15_FailureDelivered ==
    /\ [][(thread_pc = "fetch" /\ thread_pc' = "store"
             /\ Failed(command_output'))
           => fetched' = <<>>]_vars
    /\ [][(thread_pc = "store" /\ thread_pc' = "done")
           => windows_shared' = Some(fetched)]_vars
    /\ [][(/\ Failed(command_output) /\ IsFrame(frame_input')
           /\ is_loading /\ windows_shared # None)
           => /\ ~is_loading'
              /\ windows' = <<>> /\ filtered_windows' = <<>>
              /\ windows_shared' = None
              /\ slot_takes' = slot_takes + 1]_vars
    /\ [](~Closed => ENABLED IdleFrame)

\* the command printed a window line and exited with a non-zero status; Ready
\* with no windows was reached by the handoff, with no time elapsed
C15_Witness ==
    /\ command_output = Some([launched |-> TRUE, success |-> FALSE,
                              stdout |-> <<Line1>>])
    /\ IsFrame(frame_input) /\ frame_before.is_loading /\ ~is_loading
    /\ slot_takes = 1 /\ thread_pc = "done" /\ elapsed = 0
    /\ windows = <<>> /\ filtered_windows = <<>> /\ windows_shared = None
    /\ ~Closed

\* the positions of the '|' delimiters of a line
Delims(line) == {i \in 1..Len(line) : line[i] = "|"}

\* the smallest element of a non-empty set of numbers
Min(S) == CHOOSE x \in S : \A y \in S : x <= y

\* a line of text that is not whitespace-only and has at least two delimiters
Qualifies(line) ==
    /\ ReadLine(line) # None
    /\ \E i \in 1..Len(line) : ~IsWhitespace(line[i])
    /\ Cardinality(Delims(line)) >= 2

\* the record of a qualifying line: the trimmed text before the first
\* delimiter, between the first and the second, and after the second
RecordOf(line) ==
    LET p1 == Min(Delims(line))
        p2 == Min(Delims(line) \ {p1})
    IN  WindowInfo(Trim(SubSeq(line, 1, p1 - 1)),
                   Trim(SubSeq(line, p1 + 1, p2 - 1)),
                   Trim(SubSeq(line, p2 + 1, Len(line))))

\* one record per qualifying line, in output order
RecordsOf(lines) ==
    LET kept == SelectSeq(lines, Qualifies)
    IN  [k \in 1..Len(kept) |-> RecordOf(kept[k])]

\* C16: the list fetched from a successful run holds, in output order, exactly
\* one record per line of stdout that is not whitespace-only and has at least
\* two '|': id, name and info are the trimmed texts before the first '|',
\* between the first and the second, and after the second (further '|'
\* included); every other line is dropped.
C16_ParseLines ==
    (command_output # None /\ Unwrap(command_output).launched
        /\ Unwrap(command_output).success)
        => fetched = RecordsOf(Unwrap(command_output).stdout)

\* C17: in every state, while loading and after, filtered_windows is the
\* ranking of the current windows for the current search_query; so each of its
\* elements is an index into windows and none occurs twice.
C17_RankedIsCurrent ==
    /\ filtered_windows = Rank(windows, search_query)
    /\ \A k \in 1..Len(filtered_windows) :
          /\ filtered_windows[k] >= 0
          /\ filtered_windows[k] < Len(windows)
          /\ \A l \in 1..Len(filtered_windows) :
                filtered_windows[k] = filtered_windows[l] => k = l

\* "b" was typed while still loading; a later frame without a text change
\* adopted three windows and ranked them for that query
C17_Witness ==
    /\ IsFrame(frame_input) /\ frame_input.edit = None
    /\ frame_before.is_loading /\ ~is_loading
    /\ search_query = <<"b">>
    /\ Len(windows) = 3
    /\ filtered_windows = <<1, 2, 0>>

\* C18: a frame that polls the slot while loading and finds a list in it
\* adopts that list as windows and empties the slot, also when more than 2
\* seconds have elapsed; loading ends without a take only when the slot is
\* empty at that poll and more than 2 seconds have elapsed, and windows then
\* stays empty.
C18_DeliveryBeatsTimeout ==
    /\ [][(IsFrame(frame_input') /\ is_loading /\ windows_shared # None)
           => /\ windows' = Unwrap(windows_shared)
              /\ windows_shared' = None
              /\ slot_takes' = slot_takes + 1
              /\ ~is_loading']_vars
    /\ [][(is_loading /\ ~is_loading' /\ slot_takes' = slot_takes)
           => /\ windows_shared = None
              /\ elapsed > TimeoutSecs
              /\ windows' = <<>>]_vars
    /\ [][(IsFrame(frame_input') /\ is_loading /\ windows_shared = None
             /\ ~(elapsed > TimeoutSecs))
           => is_loading']_vars

\* the frame that ended loading ran after more than 2 seconds and took a
\* non-empty list from the slot
C18_Witness ==
    /\ IsFrame(frame_input) /\ frame_before.is_loading /\ ~is_loading
    /\ elapsed > TimeoutSecs
    /\ slot_takes = 1 /\ windows_shared = None
    /\ windows # <<>>

\* C19: selected_index is None only before the first filter pass, that is
\* while loading with the query never edited; every frame that re-ranks leaves
\* it Some, and once Some it is Some in every later state, through navigation,
\* query edits and row clicks.
C19_SelectedStaysSome ==
    /\ [](selected_index = None
            => /\ is_loading /\ search_query = <<>>
               /\ windows = <<>> /\ filtered_windows = <<>>)
    /\ [][Reranks => selected_index' # None]_vars
    /\ [][selected_index # None => selected_index' # None]_vars

\* a frame in Ready in which the query changed and a row below the first was
\* clicked: the selection is that row
C19_Witness ==
    /\ IsFrame(frame_input) /\ frame_input.edit # None
    /\ frame_input.click # None /\ Unwrap(frame_input.click) > 0
    /\ frame_before.selected # None /\ ~frame_before.is_loading
    /\ selected_index = frame_input.click
    /\ filtered_windows[Unwrap(selected_index) + 1] # Unwrap(selected_index)

\* C20: a step of the background thread changes nothing of the controller's
\* state (windows, search_query, filtered_windows, selected_index, is_loading,
\* window_to_focus) and sends no command; the slot changes only by the thread's
\* one store of its whole fetched list and by the controller's take, so that
\* the slot is empty or holds the complete list that was fetched and a take
\* gives the controller that complete list.
C20_ThreadWritesSlotOnly ==
    /\ [][thread_pc' # thread_pc
           => /\ UNCHANGED <<windows, search_query, filtered_windows,
                             selected_index, is_loading, window_to_focus>>
              /\ effects' = effects /\ slot_takes' = slot_takes]_vars
    /\ [][windows_shared' # windows_shared
           => \/ /\ thread_pc = "store" /\ thread_pc' = "done"
                 /\ windows_shared' = Some(fetched)
              \/ /\ IsFrame(frame_input') /\ is_loading
                 /\ windows_shared' = None
                 /\ windows' = Unwrap(windows_shared)]_vars
    /\ [](windows_shared # None
            => /\ command_output # None
               /\ windows_shared
                     = Some(fetch_windows(Unwrap(command_output))))
    /\ [][slot_takes' # slot_takes
           => windows' = fetch_windows(Unwrap(command_output))]_vars

\* the thread has just stored three windows (no tick and no frame since) while
\* the controller is loading with a query typed; the controller's state shows
\* nothing of the list
C20_Witness ==
    /\ thread_pc = "done" /\ frame_input = NoFrame /\ elapsed = 0
    /\ slot_writes = 1 /\ slot_takes = 0
    /\ windows_shared # None /\ Len(Unwrap(windows_shared)) = 3
    /\ is_loading /\ search_query # <<>>
    /\ windows = <<>> /\ filtered_windows = <<>>
    /\ selected_index = Some(0) /\ window_to_focus = None

====
